---- MODULE Spec2Model ----
(***************************************************************************)
(* Model of scripts/extract_survey_data.py: the worksheet reader           *)
(* (load_sheet_rows), the aggregator (transform and its helpers) and the   *)
(* entry point (main).                                                     *)
(*                                                                         *)
(* A Python str is a sequence of one-character strings, so that strip,     *)
(* split, title and int are computed character by character.  A Python     *)
(* dict (also Counter and defaultdict) is a sequence of [k, v] entries     *)
(* with distinct keys, in insertion order.                                 *)
(***************************************************************************)
EXTENDS Integers, Sequences, FiniteSets, TLC

VARIABLES
  pc,               \* position of the running function
  rows,             \* transform: the rows consumed so far, header first
  name_to_col,      \* transform: field name -> column identifier
  grade_counter,    \* transform: Counter of grades
  overall,          \* transform: the two overall answer Counters
  by_grade,         \* transform: defaultdict grade -> bucket
  valid_responses,  \* transform: number of retained rows
  payload,          \* transform: the returned payload
  archive,          \* main: the workbook at the source path
  parent_dir,       \* main: the destination's parent ("absent", "dir", "file")
  target_file,      \* main: the destination file's content
  stdout,           \* main: the lines printed
  exit_code         \* main: the process exit code

tvars == <<name_to_col, grade_counter, overall, by_grade, valid_responses>>
mvars == <<archive, parent_dir, target_file, stdout, exit_code>>
vars == <<pc, rows, payload, tvars, mvars>>

----------------------------------------------------------------------------
(* Bounds of the model *)

MaxRows == 2

MaxGradeLen == 4

MaxHeaderCols == 2

MaxSheetRows == 2

----------------------------------------------------------------------------
(* Characters and strings *)

UpperLetters ==
  <<"A", "B", "C", "D", "E", "F", "G", "H", "I", "J", "K", "L", "M",
    "N", "O", "P", "Q", "R", "S", "T", "U", "V", "W", "X", "Y", "Z">>

LowerLetters ==
  <<"a", "b", "c", "d", "e", "f", "g", "h", "i", "j", "k", "l", "m",
    "n", "o", "p", "q", "r", "s", "t", "u", "v", "w", "x", "y", "z">>

Range(s) == {s[i] : i \in DOMAIN s}

\* list.index(x)
IndexOf(s, x) == CHOOSE i \in DOMAIN s : s[i] = x

UpperSet == Range(UpperLetters)

LowerSet == Range(LowerLetters)

UpperOf == [c \in LowerSet |-> UpperLetters[IndexOf(LowerLetters, c)]]

LowerOf == [c \in UpperSet |-> LowerLetters[IndexOf(UpperLetters, c)]]

\* ord(c) of an ASCII letter
OrdOf ==
  [c \in UpperSet \cup LowerSet |->
     IF c \in UpperSet THEN 64 + IndexOf(UpperLetters, c)
     ELSE 96 + IndexOf(LowerLetters, c)]

IsUpper(c) == c \in UpperSet

IsLower(c) == c \in LowerSet

IsAlpha(c) == IsUpper(c) \/ IsLower(c)

IsSpace(c) == c \in {" ", "\t", "\n"}

ToUpper(c) == IF IsLower(c) THEN UpperOf[c] ELSE c

ToLower(c) == IF IsUpper(c) THEN LowerOf[c] ELSE c

Ord(c) == OrdOf[c]

RECURSIVE LStrip(_)
LStrip(s) == IF s /= <<>> /\ IsSpace(Head(s)) THEN LStrip(Tail(s)) ELSE s

RECURSIVE RStrip(_)
RStrip(s) ==
  IF s /= <<>> /\ IsSpace(s[Len(s)]) THEN RStrip(SubSeq(s, 1, Len(s) - 1)) ELSE s

\* str.strip()
Strip(s) == RStrip(LStrip(s))

\* str.title(): a letter that follows a letter is lowered, any other letter raised
RECURSIVE TitleFrom(_, _, _)
TitleFrom(s, i, prevCased) ==
  IF i > Len(s) THEN <<>>
  ELSE LET c == s[i]
           t == IF IsLower(c) THEN (IF prevCased THEN c ELSE ToUpper(c))
                ELSE IF IsUpper(c) THEN (IF prevCased THEN ToLower(c) ELSE c)
                ELSE c
       IN <<t>> \o TitleFrom(s, i + 1, IsAlpha(c))

Title(s) == TitleFrom(s, 1, FALSE)

----------------------------------------------------------------------------
(* dict, Counter, defaultdict *)

Keys(d) == [i \in DOMAIN d |-> d[i].k]

HasKey(d, k) == \E i \in DOMAIN d : d[i].k = k

\* d.get(k, default)
Get(d, k, default) ==
  IF HasKey(d, k) THEN d[CHOOSE i \in DOMAIN d : d[i].k = k].v ELSE default

\* d[k] = v: a present key keeps its place, a new key goes last
Put(d, k, v) ==
  IF HasKey(d, k)
  THEN [i \in DOMAIN d |-> IF d[i].k = k THEN [k |-> k, v |-> v] ELSE d[i]]
  ELSE Append(d, [k |-> k, v |-> v])

\* counter[k] += 1
Inc(d, k) == Put(d, k, Get(d, k, 0) + 1)

----------------------------------------------------------------------------
(* Module constants *)

GRADE_FIELD == <<"G", "r", "a", "d", "o", " ", "d", "e", "l", " ", "a", "l", "u", "m", "n", "o">>

Q1_FIELD == <<"¿", "T", "e", " ", "g", "u", "s", "t", "a", "r", "í", "a", " ", "q", "u", "e", " ", "s", "e", " ", "r", "e", "a", "l", "i", "c", "e", " ", "e", "n", " ", "l", "o", "s", " ", "s", "i", "g", "u", "i", "e", "n", "t", "e", "s", " ", "c", "i", "c", "l", "o", "s", " ", "e", "s", "c", "o", "l", "a", "r", "e", "s", "?">>

Q2_FIELD == <<"¿", "C", "o", "n", "s", "i", "d", "e", "r", "a", "s", " ", "q", "u", "e", " ", "e", "l", " ", "t", "e", "m", "a", "r", "i", "o", " ", "e", "s", "t", "á", " ", "d", "e", " ", "a", "c", "u", "e", "r", "d", "o", " ", "c", "o", "n", " ", "l", "a", "s", " ", "n", "e", "c", "e", "s", "i", "d", "a", "d", "e", "s", " ", "l", "o", "s", " ", "n", "i", "ñ", "@", "s", "?">>

Primero == <<"P", "r", "i", "m", "e", "r", "o">>

Segundo == <<"S", "e", "g", "u", "n", "d", "o">>

Tercero == <<"T", "e", "r", "c", "e", "r", "o">>

Cuarto == <<"C", "u", "a", "r", "t", "o">>

Quinto == <<"Q", "u", "i", "n", "t", "o">>

Sexto == <<"S", "e", "x", "t", "o">>

ORDERED_GRADES == <<Primero, Segundo, Tercero, Cuarto, Quinto, Sexto>>

Si == <<"S", "i">>

No == <<"N", "o">>

----------------------------------------------------------------------------
(* col_number *)

RECURSIVE ColNumberFrom(_, _, _)
ColNumberFrom(label, i, value) ==
  IF i > Len(label) THEN value
  ELSE ColNumberFrom(label, i + 1, value * 26 + (Ord(label[i]) - 64))

col_number(label) == ColNumberFrom(label, 1, 0)

----------------------------------------------------------------------------
(* load_sheet_rows *)

Digits == <<"0", "1", "2", "3", "4", "5", "6", "7", "8", "9">>

DigitSet == Range(Digits)

RECURSIVE DigitsValue(_, _)
DigitsValue(s, value) ==
  IF s = <<>> THEN value
  ELSE IF Head(s) = "_" THEN DigitsValue(Tail(s), value)
  ELSE DigitsValue(Tail(s), value * 10 + (IndexOf(Digits, Head(s)) - 1))

\* int(text): blanks around, an optional sign, then digits, which single
\* underscores may separate; anything else raises
ParseInt(text) ==
  LET s == Strip(text)
      signed == s /= <<>> /\ Head(s) \in {"+", "-"}
      body == IF signed THEN Tail(s) ELSE s
      digit(i) == i \in DOMAIN body /\ body[i] \in DigitSet
  IN IF \/ body = <<>>
        \/ \E i \in DOMAIN body :
             ~digit(i) /\ ~(body[i] = "_" /\ digit(i - 1) /\ digit(i + 1))
     THEN [ok |-> FALSE, value |-> 0]
     ELSE [ok |-> TRUE,
           value |-> IF Head(s) = "-" THEN 0 - DigitsValue(body, 0)
                     ELSE DigitsValue(body, 0)]

\* list[i]: an index below zero counts from the end
ListItem(list, i) ==
  IF 0 <= i /\ i < Len(list) THEN [ok |-> TRUE, value |-> list[i + 1]]
  ELSE IF 0 - Len(list) <= i /\ i < 0 THEN [ok |-> TRUE, value |-> list[Len(list) + i + 1]]
  ELSE [ok |-> FALSE, value |-> <<>>]

\* ''.join(t.text or '' for t in item's text runs)
RECURSIVE JoinRuns(_)
JoinRuns(runs) == IF runs = <<>> THEN <<>> ELSE Head(runs) \o JoinRuns(Tail(runs))

SharedStrings(a) ==
  IF a.has_shared THEN [i \in DOMAIN a.shared |-> JoinRuns(a.shared[i])] ELSE <<>>

\* ''.join(ch for ch in ref if ch.isalpha())
ColOf(ref) == SelectSeq(ref, IsAlpha)

\* the three rules that give a cell its value; ok is FALSE when one raises
CellValue(cell, shared_strings) ==
  IF cell.t = "s" /\ cell.v.tag /\ cell.v.text /= <<>>
  THEN LET n == ParseInt(cell.v.text)
       IN IF n.ok THEN ListItem(shared_strings, n.value)
          ELSE [ok |-> FALSE, value |-> <<>>]
  ELSE IF cell.t = "inlineStr" /\ cell.is.tag
  THEN [ok |-> TRUE, value |-> IF cell.is.t /\ cell.is.text /= <<>> THEN cell.is.text ELSE <<>>]
  ELSE IF cell.v.tag /\ cell.v.text /= <<>>
  THEN [ok |-> TRUE, value |-> cell.v.text]
  ELSE [ok |-> TRUE, value |-> <<>>]

\* the cells of one row, into parsed
RECURSIVE ParseCells(_, _, _)
ParseCells(cells, shared_strings, parsed) ==
  IF cells = <<>> THEN [ok |-> TRUE, value |-> parsed]
  ELSE LET cell == Head(cells)
           got == CellValue(cell, shared_strings)
       IN IF got.ok
          THEN ParseCells(Tail(cells), shared_strings,
                          Put(parsed, ColOf(cell.r), Strip(got.value)))
          ELSE [ok |-> FALSE, value |-> <<>>]

RECURSIVE ParseRows(_, _, _)
ParseRows(sheet, shared_strings, parsed_rows) ==
  IF sheet = <<>> THEN [ok |-> TRUE, value |-> parsed_rows]
  ELSE LET parsed == ParseCells(Head(sheet), shared_strings, <<>>)
       IN IF parsed.ok
          THEN ParseRows(Tail(sheet), shared_strings, Append(parsed_rows, parsed.value))
          ELSE [ok |-> FALSE, value |-> <<>>]

\* the rows of the archive a, or ok = FALSE when the reader raises
load_sheet_rows(a) ==
  IF ~a.zip \/ ~a.has_sheet \/ ~a.well_formed THEN [ok |-> FALSE, value |-> <<>>]
  ELSE ParseRows(a.sheet, SharedStrings(a), <<>>)

----------------------------------------------------------------------------
(* normalize_grades *)

IsSep(c) == c \in {",", ";", "/"}

\* re.split(r'[,;/]+', s): the pieces between maximal runs of separators
RECURSIVE ReSplitFrom(_, _, _, _, _)
ReSplitFrom(s, i, cur, acc, inRun) ==
  IF i > Len(s) THEN Append(acc, cur)
  ELSE IF IsSep(s[i])
       THEN IF inRun THEN ReSplitFrom(s, i + 1, cur, acc, TRUE)
            ELSE ReSplitFrom(s, i + 1, <<>>, Append(acc, cur), TRUE)
       ELSE ReSplitFrom(s, i + 1, Append(cur, s[i]), acc, FALSE)

ReSplit(s) == ReSplitFrom(s, 1, <<>>, <<>>, FALSE)

\* [g.strip().title() for g in pieces if g.strip()]
RECURSIVE TitledTokens(_)
TitledTokens(pieces) ==
  IF pieces = <<>> THEN <<>>
  ELSE LET g == Strip(Head(pieces))
       IN (IF g /= <<>> THEN <<Title(g)>> ELSE <<>>) \o TitledTokens(Tail(pieces))

\* the loop that keeps the first occurrence of each grade
RECURSIVE Unique(_, _)
Unique(grades, unique) ==
  IF grades = <<>> THEN unique
  ELSE Unique(Tail(grades),
              IF Head(grades) \in Range(unique) THEN unique
              ELSE Append(unique, Head(grades)))

RECURSIVE StrippedTokens(_)
StrippedTokens(pieces) ==
  IF pieces = <<>> THEN <<>>
  ELSE LET g == Strip(Head(pieces))
       IN (IF g /= <<>> THEN <<g>> ELSE <<>>) \o StrippedTokens(Tail(pieces))

\* mutant: duplicates are removed before the tokens are title-cased
normalize_grades_UniqueFirst(raw_grade) ==
  LET unique == Unique(StrippedTokens(ReSplit(raw_grade)), <<>>)
  IN [i \in DOMAIN unique |-> Title(unique[i])]

normalize_grades(raw_grade) == Unique(TitledTokens(ReSplit(raw_grade)), <<>>)

----------------------------------------------------------------------------
(* yes_no *)

RECURSIVE Total(_)
Total(counter) == IF counter = <<>> THEN 0 ELSE Head(counter).v + Total(Tail(counter))

\* mutant: every answer that is not "No" is taken for a "Si"
yes_no_NotNo(counter) ==
  [Si |-> Total(counter) - Get(counter, No, 0), No |-> Get(counter, No, 0)]

yes_no(counter) == [Si |-> Get(counter, Si, 0), No |-> Get(counter, No, 0)]

----------------------------------------------------------------------------
(* transform *)

\* mutant: a column whose identifier is empty is left out
SortedCols_NoBlank(header) ==
  LET keys == SelectSeq(Keys(header), LAMBDA c : c /= <<>>)
      before(j, i) ==
        \/ col_number(keys[j]) < col_number(keys[i])
        \/ col_number(keys[j]) = col_number(keys[i]) /\ j < i
      pos(i) == 1 + Cardinality({j \in DOMAIN keys : before(j, i)})
  IN [p \in DOMAIN keys |-> keys[CHOOSE i \in DOMAIN keys : pos(i) = p]]

\* sorted(header.keys(), key=col_number): stable, ties keep the dict's order
SortedCols(header) ==
  LET keys == Keys(header)
      before(j, i) ==
        \/ col_number(keys[j]) < col_number(keys[i])
        \/ col_number(keys[j]) = col_number(keys[i]) /\ j < i
      pos(i) == 1 + Cardinality({j \in DOMAIN keys : before(j, i)})
  IN [p \in DOMAIN keys |-> keys[CHOOSE i \in DOMAIN keys : pos(i) = p]]

\* {header[col]: col for col in cols}: a later column replaces an earlier one
RECURSIVE Invert(_, _, _)
Invert(header, cols, mapping) ==
  IF cols = <<>> THEN mapping
  ELSE Invert(header, Tail(cols),
              Put(mapping, Get(header, Head(cols), <<>>), Head(cols)))

NameToCol(header) == Invert(header, SortedCols(header), <<>>)

EmptyOverall == [Q1 |-> <<>>, Q2 |-> <<>>]

\* the defaultdict's factory
NewBucket == [responses |-> 0, Q1 |-> <<>>, Q2 |-> <<>>]

\* mutant: the overall answer counters are raised once for each grade of the
\* row (LoopBody has raised them once when the loop over the grades starts)
RECURSIVE CountGrades_OverallPerGrade(_, _, _, _)
CountGrades_OverallPerGrade(acc, grades, answer_1, answer_2) ==
  IF grades = <<>> THEN acc
  ELSE LET grade == Head(grades)
           b0 == Get(acc.by_grade, grade, NewBucket)
           b1 == [b0 EXCEPT !.responses = @ + 1]
           b2 == IF answer_1 /= <<>> THEN [b1 EXCEPT !.Q1 = Inc(@, answer_1)] ELSE b1
           b3 == IF answer_2 /= <<>> THEN [b2 EXCEPT !.Q2 = Inc(@, answer_2)] ELSE b2
           more == Len(grades) > 1
       IN CountGrades_OverallPerGrade(
            [acc EXCEPT
               !.grade_counter = Inc(@, grade),
               !.by_grade = Put(@, grade, b3),
               !.overall =
                 [Q1 |-> IF more /\ answer_1 /= <<>> THEN Inc(@.Q1, answer_1) ELSE @.Q1,
                  Q2 |-> IF more /\ answer_2 /= <<>> THEN Inc(@.Q2, answer_2) ELSE @.Q2]],
            Tail(grades), answer_1, answer_2)

\* mutant: the histogram counts a grade only the first time it is seen
RECURSIVE CountGrades_HistogramOnce(_, _, _, _)
CountGrades_HistogramOnce(acc, grades, answer_1, answer_2) ==
  IF grades = <<>> THEN acc
  ELSE LET grade == Head(grades)
           b0 == Get(acc.by_grade, grade, NewBucket)
           b1 == [b0 EXCEPT !.responses = @ + 1]
           b2 == IF answer_1 /= <<>> THEN [b1 EXCEPT !.Q1 = Inc(@, answer_1)] ELSE b1
           b3 == IF answer_2 /= <<>> THEN [b2 EXCEPT !.Q2 = Inc(@, answer_2)] ELSE b2
       IN CountGrades_HistogramOnce(
            [acc EXCEPT
               !.grade_counter = IF HasKey(@, grade) THEN @ ELSE Inc(@, grade),
               !.by_grade = Put(@, grade, b3)],
            Tail(grades), answer_1, answer_2)

\* for grade in grades: ...
RECURSIVE CountGrades(_, _, _, _)
CountGrades(acc, grades, answer_1, answer_2) ==
  IF grades = <<>> THEN acc
  ELSE LET grade == Head(grades)
           b0 == Get(acc.by_grade, grade, NewBucket)
           b1 == [b0 EXCEPT !.responses = @ + 1]
           b2 == IF answer_1 /= <<>> THEN [b1 EXCEPT !.Q1 = Inc(@, answer_1)] ELSE b1
           b3 == IF answer_2 /= <<>> THEN [b2 EXCEPT !.Q2 = Inc(@, answer_2)] ELSE b2
       IN CountGrades([acc EXCEPT !.grade_counter = Inc(@, grade),
                                  !.by_grade = Put(@, grade, b3)],
                      Tail(grades), answer_1, answer_2)

\* row.get(name_to_col.get(field, ''), '').strip()
Field(n2c, row, field) == Strip(Get(row, Get(n2c, field, <<>>), <<>>))

\* mutant: a row is skipped only when the grade and both answers are empty
SkipRow_NeedsAll(grade_raw, answer_1, answer_2) ==
  grade_raw = <<>> /\ ~(answer_1 /= <<>> \/ answer_2 /= <<>>)

\* "if not grade_raw or not (answer_1 or answer_2)"
SkipRow(grade_raw, answer_1, answer_2) ==
  grade_raw = <<>> \/ ~(answer_1 /= <<>> \/ answer_2 /= <<>>)

\* one iteration of "for row in rows[1:]"
LoopBody(acc, n2c, row) ==
  LET grade_raw == Field(n2c, row, GRADE_FIELD)
      answer_1 == Field(n2c, row, Q1_FIELD)
      answer_2 == Field(n2c, row, Q2_FIELD)
      grades == normalize_grades(grade_raw)
      counted ==
        [acc EXCEPT
           !.valid_responses = @ + 1,
           !.overall = [Q1 |-> IF answer_1 /= <<>> THEN Inc(@.Q1, answer_1) ELSE @.Q1,
                        Q2 |-> IF answer_2 /= <<>> THEN Inc(@.Q2, answer_2) ELSE @.Q2]]
  IN IF SkipRow(grade_raw, answer_1, answer_2) THEN acc
     ELSE IF grades = <<>> THEN acc
     ELSE CountGrades(counted, grades, answer_1, answer_2)

OrderedSet == Range(ORDERED_GRADES)

\* mutant: a grade outside the canonical list gets the key -1
GradeRank_Minus1(grade) ==
  IF grade \in OrderedSet THEN IndexOf(ORDERED_GRADES, grade) - 1 ELSE -1

\* the sort key of a grade
GradeRank(grade) ==
  IF grade \in OrderedSet THEN IndexOf(ORDERED_GRADES, grade) - 1 ELSE 99

\* sorted(keys, key=GradeRank) is stable: a key goes after every key already
\* placed whose rank is not greater
RECURSIVE InsertByRank(_, _)
InsertByRank(sorted, grade) ==
  IF sorted = <<>> THEN <<grade>>
  ELSE IF GradeRank(Head(sorted)) > GradeRank(grade) THEN <<grade>> \o sorted
  ELSE <<Head(sorted)>> \o InsertByRank(Tail(sorted), grade)

RECURSIVE SortedFrom(_, _)
SortedFrom(keys, sorted) ==
  IF keys = <<>> THEN sorted
  ELSE SortedFrom(Tail(keys), InsertByRank(sorted, Head(keys)))

SortedGrades(keys) == SortedFrom(keys, <<>>)

GradesDistribution(acc) ==
  LET names == SortedGrades(Keys(acc.grade_counter))
  IN [p \in DOMAIN names |->
        [name |-> names[p], value |-> Get(acc.grade_counter, names[p], 0)]]

ByGrade(acc) ==
  LET ordered == SortedGrades(Keys(acc.by_grade))
  IN [p \in DOMAIN ordered |->
        LET b == Get(acc.by_grade, ordered[p], NewBucket)
        IN [k |-> ordered[p],
            v |-> [responses |-> b.responses,
                   answers |-> [Q1 |-> yes_no(b.Q1), Q2 |-> yes_no(b.Q2)]]]]

Note ==
  "Se excluyen comentarios y marca temporal. Algunas respuestas incluyen varios grados y se contabilizan en cada grado indicado."

Payload(acc, source_name) ==
  [meta |-> [sourceFile |-> source_name, validResponses |-> acc.valid_responses,
             note |-> Note],
   questions |-> <<Q1_FIELD, Q2_FIELD>>,
   overall |-> [responses |-> acc.valid_responses,
                gradesDistribution |-> GradesDistribution(acc),
                answers |-> [Q1 |-> yes_no(acc.overall.Q1),
                             Q2 |-> yes_no(acc.overall.Q2)]],
   byGrade |-> ByGrade(acc)]

RECURSIVE LoopRows(_, _, _)
LoopRows(acc, n2c, data_rows) ==
  IF data_rows = <<>> THEN acc
  ELSE LoopRows(LoopBody(acc, n2c, Head(data_rows)), n2c, Tail(data_rows))

EmptyAcc ==
  [grade_counter |-> <<>>, overall |-> EmptyOverall, by_grade |-> <<>>,
   valid_responses |-> 0]

Acc ==
  [grade_counter |-> grade_counter, overall |-> overall, by_grade |-> by_grade,
   valid_responses |-> valid_responses]

\* transform(rows, source_name) for a sheet of at least one row
transform(sheet_rows, source_name) ==
  Payload(LoopRows(EmptyAcc, NameToCol(Head(sheet_rows)), Tail(sheet_rows)), source_name)

\* sys.argv[1] is absent: the default source, and its name
SourceName == "Formulario sin título (Respuestas).xlsx"

----------------------------------------------------------------------------
(* Inputs of the aggregator: the survey's header and its data rows *)

ColA == <<"A">>

ColB == <<"B">>

ColC == <<"C">>

ColD == <<"D">>

Cell(col, value) == IF value = <<>> THEN <<>> ELSE <<[k |-> col, v |-> value]>>

SurveyHeader ==
  <<[k |-> ColA, v |-> <<"M", "a", "r", "c", "a", " ", "t", "e", "m", "p", "o", "r", "a", "l">>], [k |-> ColB, v |-> GRADE_FIELD],
    [k |-> ColC, v |-> Q1_FIELD], [k |-> ColD, v |-> Q2_FIELD]>>

GradeInputs ==
  { <<>>, <<",", ";", "/">>, <<"P", "r", "i", "m", "e", "r", "o", ",", " ", "S", "e", "g", "u", "n", "d", "o">>, <<"p", "r", "i", "m", "e", "r", "o", "/", "P", "r", "i", "m", "e", "r", "o">>,
    <<"K", "i", "n", "d", "e", "r", ";", " ", "s", "e", "x", "t", "o">>, <<"O", "t", "r", "o", "/", "K", "i", "n", "d", "e", "r", ",", " ", "T", "e", "r", "c", "e", "r", "o">> }

TalVez == <<"T", "a", "l", " ", "v", "e", "z">>

AnswerInputs ==
  { <<<<>>, <<>>>>, <<Si, No>>, <<No, Si>>, <<TalVez, <<>>>>, <<TalVez, No>>,
    <<<<>>, Si>> }

\* a sparse row: a blank cell is absent
SurveyRows ==
  { Cell(ColB, g) \o Cell(ColC, a[1]) \o Cell(ColD, a[2]) :
      g \in GradeInputs, a \in AnswerInputs }

----------------------------------------------------------------------------
(* Spec: transform run on a survey sheet, one loop iteration per step *)

NoFile == [exists |-> FALSE, json |-> <<>>]

MainIdle ==
  /\ archive = <<>>
  /\ parent_dir = "dir"
  /\ target_file = NoFile
  /\ stdout = <<>>
  /\ exit_code = -1

Init ==
  /\ pc = "start"
  /\ rows = <<>>
  /\ name_to_col = <<>>
  /\ grade_counter = <<>>
  /\ overall = EmptyOverall
  /\ by_grade = <<>>
  /\ valid_responses = 0
  /\ payload = <<>>
  /\ MainIdle

\* the sheet holds no row at all: "if not rows: raise ValueError"
TransformNoRows ==
  /\ pc = "start"
  /\ rows = <<>>
  /\ pc' = "failed"
  /\ UNCHANGED <<rows, payload, tvars, mvars>>

\* lines 81-89, for the header row h
TransformHeader(h) ==
  /\ pc = "start"
  /\ rows' = <<h>>
  /\ name_to_col' = NameToCol(h)
  /\ grade_counter' = <<>>
  /\ overall' = EmptyOverall
  /\ by_grade' = <<>>
  /\ valid_responses' = 0
  /\ pc' = "loop"
  /\ UNCHANGED <<payload, mvars>>

\* one iteration of the loop, on the data row that follows those consumed
TransformRow(row) ==
  /\ pc = "loop"
  /\ rows' = Append(rows, row)
  /\ LET acc == LoopBody(Acc, name_to_col, row)
     IN /\ grade_counter' = acc.grade_counter
        /\ overall' = acc.overall
        /\ by_grade' = acc.by_grade
        /\ valid_responses' = acc.valid_responses
  /\ UNCHANGED <<pc, name_to_col, payload, mvars>>

\* the rows are exhausted: build and return the payload
TransformReturn ==
  /\ pc = "loop"
  /\ payload' = Payload(Acc, SourceName)
  /\ pc' = "done"
  /\ UNCHANGED <<rows, tvars, mvars>>

SurveyStart == TransformHeader(SurveyHeader)

SurveyRow == Len(rows) < 1 + MaxRows /\ \E row \in SurveyRows : TransformRow(row)

Next == TransformNoRows \/ SurveyStart \/ SurveyRow \/ TransformReturn

Spec == Init /\ [][Next]_vars

----------------------------------------------------------------------------
(* SpecGrades: transform on a sheet of one data row whose grade field is    *)
(* any string of at most MaxGradeLen characters                             *)

GradeChars == {"a", "A", "b", " ", ",", ";", "/"}

GradeStrings == UNION {[1..n -> GradeChars] : n \in 0..MaxGradeLen}

GradesRow ==
  /\ rows = <<SurveyHeader>>
  /\ \E raw \in GradeStrings :
       TransformRow(Cell(ColB, raw) \o Cell(ColC, Si) \o Cell(ColD, No))

NextGrades == SurveyStart \/ GradesRow \/ TransformReturn

SpecGrades == Init /\ [][NextGrades]_vars

----------------------------------------------------------------------------
(* SpecHeader: transform under any header of at most MaxHeaderCols columns, *)
(* on rows that may hold a cell whose reference has no letters              *)

ColBlank == <<>>

ColAA == <<"A", "A">>

HeaderCols == {ColBlank, ColA, ColB, ColAA}

HeaderNames == {GRADE_FIELD, Q1_FIELD, Q2_FIELD}

HeaderEntries == [k : HeaderCols, v : HeaderNames]

HeaderInputs ==
  UNION {{h \in [1..n -> HeaderEntries] :
            \A i, j \in 1..n : h[i].k = h[j].k => i = j} : n \in 0..MaxHeaderCols}

HeaderRows ==
  { <<[k |-> ColBlank, v |-> Sexto], [k |-> ColA, v |-> Si], [k |-> ColB, v |-> No]>>,
    <<[k |-> ColA, v |-> Primero], [k |-> ColB, v |-> Si], [k |-> ColAA, v |-> No]>>,
    <<[k |-> ColA, v |-> Si], [k |-> ColB, v |-> Quinto], [k |-> ColAA, v |-> Primero]>> }

HeaderStart == \E h \in HeaderInputs : TransformHeader(h)

HeaderRow == Len(rows) < 1 + MaxRows /\ \E row \in HeaderRows : TransformRow(row)

NextHeader == HeaderStart \/ HeaderRow \/ TransformReturn

SpecHeader == Init /\ [][NextHeader]_vars

----------------------------------------------------------------------------
(* SpecMain: main on any workbook of at most MaxSheetRows rows, from load   *)
(* to exit                                                                  *)

NoTag == [tag |-> FALSE, t |-> FALSE, text |-> <<>>]

Text(text) == [tag |-> TRUE, t |-> TRUE, text |-> text]

SharedCell(ref, index) == [r |-> ref, t |-> "s", v |-> Text(index), is |-> NoTag]

InlineCell(ref, text) == [r |-> ref, t |-> "inlineStr", v |-> NoTag, is |-> Text(text)]

ValueCell(ref, text) == [r |-> ref, t |-> "", v |-> Text(text), is |-> NoTag]

BlankCell(ref) == [r |-> ref, t |-> "", v |-> NoTag, is |-> NoTag]

\* the string items of xl/sharedStrings.xml, each a sequence of text runs
SharedItems ==
  << <<GRADE_FIELD>>, <<Q1_FIELD>>, <<<<"P", "r", "i", "m", "e", "r", "o", ",", " ">>, <<"S", "e", "g", "u", "n", "d", "o">>>>, <<<<" ", "S", "i", " ">>>> >>

SheetRowInputs ==
  { <<SharedCell(<<"B", "1">>, <<"0">>), SharedCell(<<"C", "1">>, <<"1">>), InlineCell(<<"D", "1">>, Q2_FIELD)>>,
    <<SharedCell(<<"B", "2">>, <<"2">>), SharedCell(<<"C", "2">>, <<" ", "3">>), ValueCell(<<"D", "2">>, No)>>,
    <<SharedCell(<<"B", "3">>, <<"-", "1">>), InlineCell(<<"C", "3">>, Si)>>,
    <<SharedCell(<<"B", "4">>, <<"4">>), InlineCell(<<"C", "4">>, Si)>>,
    <<SharedCell(<<"B", "5">>, <<"x">>), InlineCell(<<"C", "5">>, Si)>>,
    <<ValueCell(<<"B", "6">>, <<"s", "e", "x", "t", "o">>), BlankCell(<<"C", "6">>), InlineCell(<<"D", "6">>, No),
      ValueCell(<<"6">>, Quinto)>> }

Sheets == UNION {[1..n -> SheetRowInputs] : n \in 0..MaxSheetRows}

Workbook(has_shared, sheet) ==
  [zip |-> TRUE, has_sheet |-> TRUE, well_formed |-> TRUE, has_shared |-> has_shared,
   shared |-> IF has_shared THEN SharedItems ELSE <<>>, sheet |-> sheet]

ArchiveInputs ==
  { [Workbook(FALSE, <<>>) EXCEPT !.zip = FALSE],
    [Workbook(FALSE, <<>>) EXCEPT !.has_sheet = FALSE],
    [Workbook(TRUE, <<>>) EXCEPT !.well_formed = FALSE] }
  \cup {Workbook(has_shared, sheet) : has_shared \in BOOLEAN, sheet \in Sheets}

\* the file an earlier run left at the destination
OldFile == [exists |-> TRUE, json |-> Payload(EmptyAcc, "old.xlsx")]

\* the destination's parent is missing, a directory, or a regular file
FileSystems ==
  { <<"absent", NoFile>>, <<"dir", NoFile>>, <<"dir", OldFile>>, <<"file", NoFile>> }

\* sys.argv[2] is absent: the default target
Target == "src/data/survey-data.json"

InitMain ==
  /\ pc = "load"
  /\ rows = <<>>
  /\ name_to_col = <<>>
  /\ grade_counter = <<>>
  /\ overall = EmptyOverall
  /\ by_grade = <<>>
  /\ valid_responses = 0
  /\ payload = <<>>
  /\ archive \in ArchiveInputs
  /\ \E fs \in FileSystems : parent_dir = fs[1] /\ target_file = fs[2]
  /\ stdout = <<>>
  /\ exit_code = -1

\* an exception reaches the process boundary
Raise ==
  /\ pc' = "failed"
  /\ exit_code' = 1

\* mutant: the destination is opened for writing before the archive is read
MainLoad_OpensTarget ==
  /\ pc = "load"
  /\ target_file' = [exists |-> TRUE, json |-> <<>>]
  /\ LET got == load_sheet_rows(archive)
     IN IF got.ok
        THEN rows' = got.value /\ pc' = "transform" /\ UNCHANGED exit_code
        ELSE Raise /\ UNCHANGED rows
  /\ UNCHANGED <<payload, tvars, archive, parent_dir, stdout>>

\* rows = load_sheet_rows(source)
MainLoad ==
  /\ pc = "load"
  /\ LET got == load_sheet_rows(archive)
     IN IF got.ok
        THEN rows' = got.value /\ pc' = "transform" /\ UNCHANGED exit_code
        ELSE Raise /\ UNCHANGED rows
  /\ UNCHANGED <<payload, tvars, archive, parent_dir, target_file, stdout>>

\* payload = transform(rows, source.name)
MainTransform ==
  /\ pc = "transform"
  /\ IF rows = <<>>
     THEN Raise /\ UNCHANGED payload
     ELSE payload' = transform(rows, SourceName) /\ pc' = "mkdir" /\ UNCHANGED exit_code
  /\ UNCHANGED <<rows, tvars, archive, parent_dir, target_file, stdout>>

\* target.parent.mkdir(parents=True, exist_ok=True)
MainMkdir ==
  /\ pc = "mkdir"
  /\ IF parent_dir = "file"
     THEN Raise /\ UNCHANGED parent_dir
     ELSE parent_dir' = "dir" /\ pc' = "write" /\ UNCHANGED exit_code
  /\ UNCHANGED <<rows, payload, tvars, archive, target_file, stdout>>

\* target.write_text(json.dumps(payload, ...))
MainWrite ==
  /\ pc = "write"
  /\ target_file' = [exists |-> TRUE, json |-> payload]
  /\ pc' = "print"
  /\ UNCHANGED <<rows, payload, tvars, archive, parent_dir, stdout, exit_code>>

\* the three summary lines, then "return 0"
MainPrint ==
  /\ pc = "print"
  /\ stdout' = <<[label |-> "Generated", value |-> Target],
                 [label |-> "Valid responses", value |-> payload.meta.validResponses],
                 [label |-> "Grades", value |-> Keys(payload.byGrade)]>>
  /\ exit_code' = 0
  /\ pc' = "done"
  /\ UNCHANGED <<rows, payload, tvars, archive, parent_dir, target_file>>

NextMain == MainLoad \/ MainTransform \/ MainMkdir \/ MainWrite \/ MainPrint

SpecMain == InitMain /\ [][NextMain]_vars

----------------------------------------------------------------------------
(* What the claims speak about, stated on the rows themselves *)

GradeOf(row) == Field(name_to_col, row, GRADE_FIELD)

AnswerOf(q, row) ==
  IF q = "Q1" THEN Field(name_to_col, row, Q1_FIELD)
  ELSE Field(name_to_col, row, Q2_FIELD)

Questions == {"Q1", "Q2"}

\* the grade field holds nothing but separators and blanks
OnlySeparators(raw) == \A i \in DOMAIN raw : IsSep(raw[i]) \/ IsSpace(raw[i])

\* the three cases in which a row is skipped
Skipped(row) ==
  \/ GradeOf(row) = <<>>
  \/ AnswerOf("Q1", row) = <<>> /\ AnswerOf("Q2", row) = <<>>
  \/ OnlySeparators(GradeOf(row))

Retained(row) == ~Skipped(row)

GradesOf(row) == Range(normalize_grades(GradeOf(row)))

\* what a row says: whether it is retained, the grades it names in the order
\* of its grade field, and its two answers
RowFacts(row) ==
  [kept |-> Retained(row), named |-> normalize_grades(GradeOf(row)),
   Q1 |-> AnswerOf("Q1", row), Q2 |-> AnswerOf("Q2", row)]

RECURSIVE FactsFrom(_)
FactsFrom(i) ==
  IF i > Len(rows) THEN <<>> ELSE <<RowFacts(rows[i])>> \o FactsFrom(i + 1)

\* the facts of the data rows consumed, in input order
Facts == FactsFrom(2)

Kept(facts) == {i \in DOMAIN facts : facts[i].kept}

LastRow == rows[Len(rows)]

\* the step consumed one more data row
RowStep == pc = "loop" /\ pc' = "loop" /\ Len(rows') = Len(rows) + 1

BucketOf(p, g) ==
  Get(p.byGrade, g,
      [responses |-> 0,
       answers |-> [Q1 |-> [Si |-> 0, No |-> 0], Q2 |-> [Si |-> 0, No |-> 0]]])

DistNames(p) ==
  [i \in DOMAIN p.overall.gradesDistribution |-> p.overall.gradesDistribution[i].name]

DistValue(p, g) ==
  LET d == p.overall.gradesDistribution
  IN IF \E i \in DOMAIN d : d[i].name = g
     THEN d[CHOOSE i \in DOMAIN d : d[i].name = g].value
     ELSE 0

RECURSIVE SumValues(_)
SumValues(d) == IF d = <<>> THEN 0 ELSE Head(d).value + SumValues(Tail(d))

RawCounter(c, q) == IF q = "Q1" THEN c.Q1 ELSE c.Q2

----------------------------------------------------------------------------
(* C1: a retained row whose grade field normalizes to N >= 1 grades adds    *)
(* exactly 1 to overall.responses and meta.validResponses and to the overall *)
(* counter of each non-empty answer, and adds exactly 1 to                  *)
(* byGrade[g].responses, to g's gradesDistribution value and to g's         *)
(* per-question answer counter for each of the N grades g (and nothing to   *)
(* any other grade), whatever rows came before.                             *)
C1_RetainedRowCounts ==
  [][RowStep =>
       \A facts \in {RowFacts(rows'[Len(rows')])} :
         facts.kept =>
           \A before \in {Payload(Acc, SourceName)}, after \in {Payload(Acc', SourceName)} :
             LET grades == Range(facts.named)
             IN /\ Cardinality(grades) >= 1
                /\ after.overall.responses = before.overall.responses + 1
                /\ after.meta.validResponses = before.meta.validResponses + 1
                /\ \A q \in Questions :
                     LET a == RawCounter(facts, q)
                     IN a /= <<>> =>
                          /\ Get(RawCounter(overall', q), a, 0)
                               = Get(RawCounter(overall, q), a, 0) + 1
                          /\ \A g \in grades :
                               Get(RawCounter(Get(by_grade', g, NewBucket), q), a, 0)
                                 = Get(RawCounter(Get(by_grade, g, NewBucket), q), a, 0) + 1
                /\ \A g \in grades :
                     /\ BucketOf(after, g).responses = BucketOf(before, g).responses + 1
                     /\ DistValue(after, g) = DistValue(before, g) + 1
                /\ \A g \in Range(Keys(after.byGrade)) \ grades :
                     /\ BucketOf(after, g) = BucketOf(before, g)
                     /\ DistValue(after, g) = DistValue(before, g)
    ]_vars

\* a row naming three grades was retained after another retained row
C1_Witness ==
  /\ pc = "loop"
  /\ Len(rows) = 3
  /\ valid_responses = 2
  /\ Cardinality(GradesOf(LastRow)) = 3
  /\ AnswerOf("Q1", LastRow) = Si

----------------------------------------------------------------------------
(* C2: a row whose grade field is empty, or whose two question fields are   *)
(* both empty, or whose grade field holds only separators changes nothing:  *)
(* every counter and the payload are as if the row were not in the input,   *)
(* and no grade bucket is created.                                          *)
C2_SkippedRowChangesNothing ==
  [][RowStep /\ Skipped(rows'[Len(rows')]) =>
       /\ valid_responses' = valid_responses
       /\ overall' = overall
       /\ grade_counter' = grade_counter
       /\ by_grade' = by_grade
       /\ Payload(Acc', SourceName) = Payload(Acc, SourceName)
    ]_vars

\* a row with a grade and no answer was skipped after a retained row
C2_Witness ==
  /\ pc = "loop"
  /\ Len(rows) = 3
  /\ Retained(rows[2])
  /\ GradesOf(LastRow) /= {}
  /\ AnswerOf("Q1", LastRow) = <<>> /\ AnswerOf("Q2", LastRow) = <<>>
  /\ valid_responses = 1

----------------------------------------------------------------------------
(* C3: at every aggregation level the Si (No) count of a question is the    *)
(* number of contributing rows whose answer is exactly "Si" ("No"); a row    *)
(* with another non-empty answer raises neither and still is a valid        *)
(* response.                                                                *)
C3_YesNoCounts ==
  pc = "done" =>
    LET facts == Facts
        kept == Kept(facts)
        count(S, q, a) == Cardinality({i \in S : RawCounter(facts[i], q) = a})
    IN /\ payload.meta.validResponses = Cardinality(kept)
       /\ \A q \in Questions :
            LET top == RawCounter(payload.overall.answers, q)
            IN /\ top.Si = count(kept, q, Si)
               /\ top.No = count(kept, q, No)
       /\ \A e \in Range(payload.byGrade) :
            LET mine == {i \in kept : e.k \in Range(facts[i].named)}
            IN \A q \in Questions :
                 LET cnt == RawCounter(e.v.answers, q)
                 IN /\ cnt.Si = count(mine, q, Si)
                    /\ cnt.No = count(mine, q, No)

\* a "Tal vez" row and a "Si" row were both retained
C3_Witness ==
  /\ pc = "done"
  /\ Len(rows) = 3
  /\ AnswerOf("Q1", rows[2]) = TalVez
  /\ AnswerOf("Q1", rows[3]) = Si
  /\ payload.meta.validResponses = 2
  /\ payload.overall.answers.Q1 = [Si |-> 1, No |-> 0]

----------------------------------------------------------------------------
IsCanonical(g) == \E i \in DOMAIN ORDERED_GRADES : ORDERED_GRADES[i] = g

\* the grades in the order in which the retained rows first name them
RECURSIVE FirstSeen(_, _)
FirstSeen(facts, seen) ==
  IF facts = <<>> THEN seen
  ELSE FirstSeen(Tail(facts),
                 IF Head(facts).kept
                 THEN seen \o SelectSeq(Head(facts).named, LAMBDA g : g \notin Range(seen))
                 ELSE seen)

(* C5: gradesDistribution and the keys of byGrade list the same grades in   *)
(* the same order: the canonical grades seen come first, in canonical       *)
(* order, then the other grades in the order in which the rows first named  *)
(* them.                                                                    *)
C5_GradeOrder ==
  pc = "done" =>
    LET keys == Keys(payload.byGrade)
        seen == FirstSeen(Facts, <<>>)
    IN /\ DistNames(payload) = keys
       /\ Range(keys) = Range(seen)
       /\ Len(keys) = Len(seen)
       /\ \A i, j \in DOMAIN keys :
            i < j =>
              /\ IsCanonical(keys[j]) => IsCanonical(keys[i])
              /\ IsCanonical(keys[i]) /\ IsCanonical(keys[j]) =>
                   IndexOf(ORDERED_GRADES, keys[i]) < IndexOf(ORDERED_GRADES, keys[j])
              /\ ~IsCanonical(keys[i]) /\ ~IsCanonical(keys[j]) =>
                   IndexOf(seen, keys[i]) < IndexOf(seen, keys[j])

\* canonical grades were first named after other grades, out of canonical order
C5_Witness ==
  /\ pc = "done"
  /\ Keys(by_grade) = <<<<"K", "i", "n", "d", "e", "r">>, Sexto, <<"O", "t", "r", "o">>, Tercero>>
  /\ Keys(payload.byGrade) = <<Tercero, Sexto, <<"K", "i", "n", "d", "e", "r">>, <<"O", "t", "r", "o">>>>

----------------------------------------------------------------------------
(* C10: the byGrade keys, the gradesDistribution names and the grades named *)
(* by a retained row are one set; for each such grade g,                    *)
(* 1 <= byGrade[g].responses = value of g <= overall.responses; and         *)
(* overall.responses <= the sum of the values, strictly less exactly when   *)
(* a retained row names more than one grade.                                *)
C10_CountConsistency ==
  pc = "done" =>
    LET facts == Facts
        kept == Kept(facts)
        keys == Range(Keys(payload.byGrade))
        total == SumValues(payload.overall.gradesDistribution)
    IN /\ keys = Range(DistNames(payload))
       /\ keys = UNION {Range(facts[i].named) : i \in kept}
       /\ Len(payload.byGrade) = Cardinality(keys)
       /\ Len(payload.overall.gradesDistribution) = Cardinality(keys)
       /\ \A g \in keys :
            /\ BucketOf(payload, g).responses = DistValue(payload, g)
            /\ 1 <= BucketOf(payload, g).responses
            /\ BucketOf(payload, g).responses <= payload.overall.responses
       /\ payload.overall.responses <= total
       /\ payload.overall.responses < total
            <=> \E i \in kept : Cardinality(Range(facts[i].named)) > 1

\* a one-grade row and a two-grade row were retained: 2 responses, values sum to 3
C10_Witness ==
  /\ pc = "done"
  /\ payload.overall.responses = 2
  /\ SumValues(payload.overall.gradesDistribution) = 3
  /\ Len(payload.byGrade) = 2

----------------------------------------------------------------------------

\* the maximal separator-free pieces of raw, by the place where each starts
PieceStarts(raw) ==
  {i \in DOMAIN raw : ~IsSep(raw[i]) /\ (i = 1 \/ IsSep(raw[i - 1]))}

PieceAt(raw, i) ==
  LET j == CHOOSE j \in i..Len(raw) :
             /\ \A m \in i..j : ~IsSep(raw[m])
             /\ j = Len(raw) \/ IsSep(raw[j + 1])
  IN Strip(SubSeq(raw, i, j))

TokenStarts(raw) == {i \in PieceStarts(raw) : PieceAt(raw, i) /= <<>>}

Fold(s) == [i \in DOMAIN s |-> ToLower(s[i])]

\* no letter after a letter is a capital, every other letter is one
IsTitled(s) ==
  \A i \in DOMAIN s :
    IF i > 1 /\ IsAlpha(s[i - 1]) THEN ~IsUpper(s[i]) ELSE ~IsLower(s[i])

\* where the first token equal to k up to letter case starts
FirstStart(raw, k) ==
  CHOOSE i \in TokenStarts(raw) :
    /\ Fold(PieceAt(raw, i)) = Fold(k)
    /\ \A j \in TokenStarts(raw) : Fold(PieceAt(raw, j)) = Fold(k) => i <= j

(* C8: normalize_grades splits on comma, semicolon and slash, trims, drops  *)
(* empty tokens, title-cases and removes duplicates keeping the first       *)
(* occurrence: tokens that differ only by letter case land in one bucket,   *)
(* and a row that names a grade more than once adds exactly 1 to that       *)
(* grade's response and answer counters.                                    *)
C8_NormalizeGrades ==
  Len(rows) = 2 =>
    LET raw == Get(rows[2], ColB, <<>>)
        starts == TokenStarts(raw)
        grades == normalize_grades(raw)
        keys == Keys(by_grade)
    IN /\ keys = grades
       /\ Keys(grade_counter) = grades
       /\ valid_responses = (IF starts = {} THEN 0 ELSE 1)
       /\ \A i \in starts : \E n \in DOMAIN keys : Fold(keys[n]) = Fold(PieceAt(raw, i))
       /\ \A n \in DOMAIN keys :
            /\ keys[n] /= <<>> /\ Strip(keys[n]) = keys[n] /\ IsTitled(keys[n])
            /\ \E i \in starts : Fold(PieceAt(raw, i)) = Fold(keys[n])
            /\ \A m \in DOMAIN keys :
                 /\ Fold(keys[m]) = Fold(keys[n]) => m = n
                 /\ m < n => FirstStart(raw, keys[m]) < FirstStart(raw, keys[n])
            /\ by_grade[n].v = [responses |-> 1, Q1 |-> <<[k |-> Si, v |-> 1]>>,
                                Q2 |-> <<[k |-> No, v |-> 1]>>]
            /\ grade_counter[n].v = 1

\* a row named one grade twice, in two letter cases, and its bucket holds 1
C8_Witness ==
  /\ pc = "done"
  /\ Len(rows) = 2
  /\ Get(rows[2], ColB, <<>>) = <<"a", "/", " ", "A">>
  /\ Keys(payload.byGrade) = <<<<"A">>>>
  /\ payload.byGrade[1].v.responses = 1

----------------------------------------------------------------------------
ColOrders(header) ==
  {p \in [DOMAIN header -> Range(Keys(header))] :
     \A i, j \in DOMAIN header : p[i] = p[j] => i = j}

SameMapping(d, e) == Range(d) = Range(e)

DistinctNames(header) ==
  \A i, j \in DOMAIN header : header[i].v = header[j].v => i = j

(* C9 as claimed: inverting the header row gives the same mapping in every  *)
(* column order, also when two columns carry the same field name.           *)
C9_AnyOrderSameMapping ==
  pc /= "start" =>
    \A p \in ColOrders(rows[1]) : SameMapping(Invert(rows[1], p, <<>>), name_to_col)

(* C9 as amended: when no two columns of the header row carry the same      *)
(* field name, inverting it gives the same mapping in every column order.   *)
C9_DistinctNamesSameMapping ==
  pc /= "start" /\ DistinctNames(rows[1]) =>
    \A p \in ColOrders(rows[1]) : SameMapping(Invert(rows[1], p, <<>>), name_to_col)

\* a header of two differently named columns, stored out of column order
C9_Witness ==
  /\ pc = "loop"
  /\ Len(rows[1]) = 2
  /\ DistinctNames(rows[1])
  /\ Keys(rows[1]) /= SortedCols(rows[1])
  /\ Len(name_to_col) = 2

----------------------------------------------------------------------------
HasGradeColumn(header) == \E i \in DOMAIN header : header[i].v = GRADE_FIELD

(* C4: when no header column is named by the grade field name, every data   *)
(* row is skipped and the result is that of a header-only input:            *)
(* validResponses = 0, byGrade = {} and gradesDistribution = [].            *)
C4_NoGradeColumnEmptyResult ==
  pc = "done" /\ ~HasGradeColumn(rows[1]) =>
    /\ payload.meta.validResponses = 0
    /\ payload.byGrade = <<>>
    /\ payload.overall.gradesDistribution = <<>>

----------------------------------------------------------------------------
(* C6: main reads the archive, aggregates, creates the destination's        *)
(* parent, writes the destination file and prints the summary, in that      *)
(* order; when the reader or the aggregator fails (a sheet of zero rows     *)
(* fails before any row is counted) the destination is neither created nor  *)
(* modified and nothing is printed; a header-only sheet is no error, and    *)
(* the run that succeeds exits with code 0.                                 *)
C6_MainStepsAndFailures ==
  [][/\ pc = "load" =>
          /\ pc' \in {"transform", "failed"}
          /\ pc' = "failed" <=> ~load_sheet_rows(archive).ok
     /\ pc = "transform" =>
          /\ pc' \in {"mkdir", "failed"}
          /\ pc' = "failed" <=> rows = <<>>
          /\ pc' = "failed" => payload' = payload
          /\ Len(rows) = 1 =>
               /\ payload'.meta.validResponses = 0
               /\ payload'.byGrade = <<>>
               /\ payload'.overall.gradesDistribution = <<>>
     /\ pc \in {"load", "transform"} =>
          /\ parent_dir' = parent_dir
          /\ target_file' = target_file
          /\ stdout = <<>> /\ stdout' = <<>>
          /\ pc' = "failed" => exit_code' /= 0
     /\ pc = "mkdir" =>
          /\ pc' \in {"write", "failed"}
          /\ pc' = "write" => parent_dir' = "dir"
          /\ target_file' = target_file /\ stdout' = <<>>
     /\ pc = "write" =>
          /\ pc' = "print"
          /\ target_file' = [exists |-> TRUE, json |-> payload]
          /\ parent_dir = "dir" /\ stdout' = <<>>
     /\ pc = "print" =>
          /\ pc' = "done"
          /\ Len(stdout') = 3 /\ exit_code' = 0
          /\ target_file' = target_file /\ target_file.json = payload
    ]_vars

\* an empty sheet failed the aggregator and the old destination file is intact
C6_Witness ==
  /\ pc = "failed"
  /\ load_sheet_rows(archive).ok
  /\ archive.sheet = <<>>
  /\ target_file = OldFile
  /\ stdout = <<>>
  /\ exit_code = 1

----------------------------------------------------------------------------
OutOfRange(cell, shared_strings) ==
  /\ cell.t = "s" /\ cell.v.tag /\ cell.v.text /= <<>>
  /\ LET n == ParseInt(cell.v.text)
     IN n.ok /\ (n.value < 0 \/ n.value >= Len(shared_strings))

HasOutOfRangeCell(a) ==
  \E i \in DOMAIN a.sheet : \E j \in DOMAIN a.sheet[i] :
    OutOfRange(a.sheet[i][j], SharedStrings(a))

(* C7: a shared-string cell whose index i is out of the range of the shared *)
(* string table (i < 0 or i >= its length) is fatal: the reader fails,      *)
(* returns no rows and never resolves the cell to a string of the table.    *)
C7_OutOfRangeIndexIsFatal ==
  HasOutOfRangeCell(archive) /\ pc /= "load" => pc = "failed" /\ rows = <<>>

====
